---- MODULE Spec2Model ----
(***************************************************************************)
(* Cart store of the cafe bot: CartManager of enhanced_cart_manager.py.    *)
(*                                                                         *)
(* self.carts is a Python dict user_id -> cart, a cart is a dict with an   *)
(* 'items' dict item_id -> quantity.  Python dicts are modelled as TLA+    *)
(* functions whose domain is the set of keys.  The 'created_at' and        *)
(* 'updated_at' entries of a cart hold wall-clock strings that no          *)
(* operation ever reads; they are not part of the state here.              *)
(*                                                                         *)
(* dict.get(key, default) returns the STORED object when the key is        *)
(* present, so a method that changes the cart it got from get_cart changes *)
(* the store at that very statement, before any later check or save.       *)
(***************************************************************************)
EXTENDS Integers, Sequences, FiniteSets, TLC

\* ---------------------------------------------------------------- bounds
MAX_CART_ITEMS == 2
NumUsers == 2
MaxQty == 2
NumThreads == 3
\* sequential runs: entries held by all the carts of the store together
MaxEntries == 3

Users == 1..NumUsers
Items == 1..(MAX_CART_ITEMS + 1)
Quantities == (-1)..MaxQty
Threads == 1..NumThreads

VARIABLES
    carts,      \* self.carts
    prev,       \* self.carts as it was when the last call started
    op,         \* the last call: method name and arguments
    ret,        \* what the last call returned
    raised,     \* TRUE when the last call ended in a propagated exception
    heap,       \* concurrent runs: the items dict of every cart object
    shared,     \* concurrent runs: self.carts, user_id -> cart object
    tcart,      \* concurrent runs: the local variable `cart` of each thread
    pc,         \* concurrent runs: the position of each thread in add_item
    tret,       \* concurrent runs: what each thread's call returned
    base,       \* concurrent runs: quantity of the item before the calls
    caller,     \* a caller of get_cart: the cart object it was handed
    simple,     \* self.carts of the CartManager of add_cart_system.py
    rejected    \* TRUE once add_item has returned False

seqvars == <<carts, prev, op, ret, raised>>
concvars == <<heap, shared, tcart, pc, tret, base>>
othervars == <<caller, simple, rejected>>
vars == <<carts, prev, op, ret, raised, heap, shared, tcart, pc, tret, base,
          caller, simple, rejected>>

\* ------------------------------------------------------- Python dict ops
EmptyDict == [k \in {} |-> 0]
Put(d, k, v) == [x \in (DOMAIN d) \cup {k} |-> IF x = k THEN v ELSE d[x]]
Del(d, k) == [x \in (DOMAIN d) \ {k} |-> d[x]]
Get(d, k, default) == IF k \in DOMAIN d THEN d[k] ELSE default
len(d) == Cardinality(DOMAIN d)

\* -------------------------------------------------- CartManager, one call
\* __init__: self.carts = {}
CartManager_init == EmptyDict

\* get_cart: self.carts.get(user_id, {'items': {}, ...}); the stored cart
\* itself when there is one, a new empty cart otherwise
get_cart(c, user_id) == Get(c, user_id, [items |-> EmptyDict])

\* add_item_cart storing the quantity instead of adding to it
add_item_cart_overwrite(c, user_id, item_id, quantity) ==
    LET cart == get_cart(c, user_id)
    IN  [cart EXCEPT !.items = Put(cart.items, item_id, quantity)]

\* the cart object add_item works on, after lines 43-46
add_item_cart(c, user_id, item_id, quantity) ==
    LET cart == get_cart(c, user_id)
    IN  IF item_id \in DOMAIN cart.items
        THEN [cart EXCEPT !.items = Put(cart.items, item_id, cart.items[item_id] + quantity)]
        ELSE [cart EXCEPT !.items = Put(cart.items, item_id, quantity)]

add_item(c, user_id, item_id, quantity) ==
    LET cart == add_item_cart(c, user_id, item_id, quantity)
        \* lines 44/46 write into the object get_cart returned: the stored
        \* cart when user_id has one, a private new dict otherwise
        c1 == IF user_id \in DOMAIN c THEN Put(c, user_id, cart) ELSE c
    IN  IF len(cart.items) > MAX_CART_ITEMS
        THEN [carts |-> c1, ret |-> FALSE]
        ELSE [carts |-> Put(c1, user_id, cart), ret |-> TRUE]

\* remove_item dropping the cart from the store when it deletes its last entry
remove_item_drops_empty_cart(c, user_id, item_id) ==
    LET cart == get_cart(c, user_id)
    IN  IF item_id \in DOMAIN cart.items
        THEN [carts |-> IF DOMAIN cart.items = {item_id}
                        THEN Del(c, user_id)
                        ELSE Put(c, user_id, [cart EXCEPT !.items = Del(cart.items, item_id)]),
              ret |-> TRUE]
        ELSE [carts |-> c, ret |-> FALSE]

\* remove_item saving the cart it got whether or not it deleted something
remove_item_always_saves(c, user_id, item_id) ==
    LET cart == get_cart(c, user_id)
    IN  IF item_id \in DOMAIN cart.items
        THEN [carts |-> Put(c, user_id, [cart EXCEPT !.items = Del(cart.items, item_id)]),
              ret |-> TRUE]
        ELSE [carts |-> Put(c, user_id, cart), ret |-> FALSE]

remove_item(c, user_id, item_id) ==
    LET cart == get_cart(c, user_id)
    IN  IF item_id \in DOMAIN cart.items
        THEN [carts |-> Put(c, user_id, [cart EXCEPT !.items = Del(cart.items, item_id)]),
              ret |-> TRUE]
        ELSE [carts |-> c, ret |-> FALSE]

\* update_quantity removing only for a negative quantity
update_quantity_negative_only(c, user_id, item_id, quantity) ==
    IF quantity < 0
    THEN remove_item(c, user_id, item_id)
    ELSE LET cart == get_cart(c, user_id)
         IN  [carts |-> Put(c, user_id, [cart EXCEPT !.items = Put(cart.items, item_id, quantity)]),
              ret |-> TRUE]

update_quantity(c, user_id, item_id, quantity) ==
    IF quantity <= 0
    THEN remove_item(c, user_id, item_id)
    ELSE LET cart == get_cart(c, user_id)
         IN  [carts |-> Put(c, user_id, [cart EXCEPT !.items = Put(cart.items, item_id, quantity)]),
              ret |-> TRUE]

get_item_quantity(c, user_id, item_id) == Get(get_cart(c, user_id).items, item_id, 0)

\* clear_cart emptying the whole store
clear_cart_whole_store(c, user_id) ==
    [carts |-> EmptyDict, ret |-> user_id \in DOMAIN c]

\* clear_cart returning True whether or not there was a cart
clear_cart_always_true(c, user_id) ==
    IF user_id \in DOMAIN c
    THEN [carts |-> Del(c, user_id), ret |-> TRUE]
    ELSE [carts |-> c, ret |-> TRUE]

clear_cart(c, user_id) ==
    IF user_id \in DOMAIN c
    THEN [carts |-> Del(c, user_id), ret |-> TRUE]
    ELSE [carts |-> c, ret |-> FALSE]

RECURSIVE sum_values(_, _)
\* sum(d.values())
sum_values(d, keys) ==
    IF keys = {} THEN 0
    ELSE LET k == CHOOSE x \in keys : TRUE
         IN  d[k] + sum_values(d, keys \ {k})

\* get_cart_item_count counting the distinct items
get_cart_item_count_distinct(c, user_id) == len(get_cart(c, user_id).items)

get_cart_item_count(c, user_id) ==
    LET cart == get_cart(c, user_id)
    IN  sum_values(cart.items, DOMAIN cart.items)

\* is_cart_empty testing that the store has no cart for the user
is_cart_empty_no_cart(c, user_id) == user_id \notin DOMAIN c

is_cart_empty(c, user_id) == len(get_cart(c, user_id).items) = 0

\* ------------------------------------------------------------ catalogs
\* A catalog is what json.load gives (utils.load_menu_data): dicts keyed by
\* strings, lists, and item dicts {'id': ..., 'price': '$3'}.  A string is a
\* sequence of one-character strings.
ItemDict(id, price) == [kind |-> "dict", text |-> "", id |-> id, price |-> price]
Str(text) == [kind |-> "str", text |-> text, id |-> 0, price |-> << >>]
ItemA == ItemDict(1, <<"$", "3">>)
ItemB == ItemDict(2, <<"$", "5">>)
\* A category value: its Python type, what `for item in items` yields (the
\* elements of a list, the KEYS of a dict) and the items it lists.
\* a category given as the list of its items
ListCategory(its) == [type |-> "list", iter |-> its, items |-> its]
\* a category given as in menu_data.json: {'name': ..., 'items': [...]}
DictCategory(its) == [type |-> "dict", iter |-> <<Str("name"), Str("items")>>, items |-> its]
Catalogs ==
    << [drinks |-> ListCategory(<<ItemA, ItemB>>)],
       [drinks |-> ListCategory(<<ItemA>>)],
       [drinks |-> DictCategory(<<ItemA, ItemB>>)],
       [drinks |-> DictCategory(<<ItemA>>)],
       [drinks |-> ListCategory(<<ItemA>>), food |-> ListCategory(<<ItemB>>)] >>
CatalogIds == 1..Len(Catalogs)

\* str.replace('$', '')
replace_dollar(s) == SelectSeq(s, LAMBDA ch : ch # "$")
Digits == {"0", "1", "2", "3", "4", "5", "6", "7", "8", "9"}
DigitValue(ch) ==
    CASE ch = "0" -> 0 [] ch = "1" -> 1 [] ch = "2" -> 2 [] ch = "3" -> 3
      [] ch = "4" -> 4 [] ch = "5" -> 5 [] ch = "6" -> 6 [] ch = "7" -> 7
      [] ch = "8" -> 8 [] ch = "9" -> 9
RECURSIVE float(_)
\* float() of a string of digits (whole prices); -1 stands for ValueError
float(s) ==
    IF s = << >> \/ \E k \in 1..Len(s) : s[k] \notin Digits THEN -1
    ELSE IF Len(s) = 1 THEN DigitValue(s[1])
    ELSE 10 * float(SubSeq(s, 1, Len(s) - 1)) + DigitValue(s[Len(s)])

Ok(n) == [exception |-> FALSE, total |-> n]
Exc == [exception |-> TRUE, total |-> 0]
Plus(r1, r2) == IF r1.exception \/ r2.exception THEN Exc ELSE Ok(r1.total + r2.total)

RECURSIVE for_item_in_items(_, _, _)
\* lines 140-144: `for item in items`, up to the first match (break);
\* item.get on a str raises AttributeError
for_item_in_items(elems, item_id, quantity) ==
    IF elems = << >> THEN Ok(0)
    ELSE LET item == Head(elems)
         IN  IF item.kind = "str" THEN Exc
             ELSE IF item.id = item_id
             THEN LET price == float(replace_dollar(item.price))
                  IN  IF price < 0 THEN Exc ELSE Ok(price * quantity)
             ELSE for_item_in_items(Tail(elems), item_id, quantity)

RECURSIVE for_category(_, _, _, _)
\* lines 138-144: `for category, items in menu_items.items()`; only a value
\* that is a dict passes isinstance(items, dict)
for_category(menu_items, categories, item_id, quantity) ==
    IF categories = {} THEN Ok(0)
    ELSE LET category == CHOOSE x \in categories : TRUE
             items == menu_items[category]
             this == IF items.type = "dict"
                     THEN for_item_in_items(items.iter, item_id, quantity)
                     ELSE Ok(0)
         IN  Plus(this, for_category(menu_items, categories \ {category}, item_id, quantity))

RECURSIVE for_cart_entry(_, _, _)
\* lines 136-144: `for item_id, quantity in cart.get('items', {}).items()`
for_cart_entry(entries, ids, menu_items) ==
    IF ids = {} THEN Ok(0)
    ELSE LET item_id == CHOOSE x \in ids : TRUE
         IN  Plus(for_category(menu_items, DOMAIN menu_items, item_id, entries[item_id]),
                  for_cart_entry(entries, ids \ {item_id}, menu_items))

\* the body of get_cart_total inside its try (lines 133-146)
get_cart_total_try(c, user_id, menu_items) ==
    LET cart == get_cart(c, user_id)
    IN  for_cart_entry(cart.items, DOMAIN cart.items, menu_items)

\* get_cart_total without its except clause
get_cart_total_no_except(c, user_id, menu_items) ==
    LET r == get_cart_total_try(c, user_id, menu_items)
    IN  [ret |-> r.total, raised |-> r.exception]

\* get_cart_total: except Exception -> log and return 0
get_cart_total(c, user_id, menu_items) ==
    LET r == get_cart_total_try(c, user_id, menu_items)
    IN  IF r.exception THEN [ret |-> 0, raised |-> FALSE]
        ELSE [ret |-> r.total, raised |-> FALSE]

\* ---------------------------------------------------- sequential program
\* no call in progress: the caller is between two calls
NoOp == [name |-> "idle", user |-> 0, item |-> 0, qty |-> 0, cat |-> 0]
Call(name, u, i, q, m) == [name |-> name, user |-> u, item |-> i, qty |-> q, cat |-> m]

\* quantities stay within the modelled range
InRange(c) == \A u \in DOMAIN c : \A i \in DOMAIN c[u].items : c[u].items[i] \in Quantities

ConcIdle ==
    /\ heap = EmptyDict /\ shared = EmptyDict /\ tcart = EmptyDict
    /\ pc = EmptyDict /\ tret = EmptyDict /\ base = 0

\* no caller holds a cart, the simple manager is not run
OtherIdle == caller = EmptyDict /\ simple = EmptyDict /\ rejected = FALSE

\* the entries of all carts of a store
RECURSIVE TotalEntries(_, _)
TotalEntries(c, users) ==
    IF users = {} THEN 0
    ELSE LET u == CHOOSE x \in users : TRUE
         IN  len(c[u].items) + TotalEntries(c, users \ {u})
\* the store stays within the modelled range
Bounded(c) == InRange(c) /\ TotalEntries(c, DOMAIN c) <= MaxEntries

Init ==
    /\ carts = CartManager_init
    /\ prev = CartManager_init
    /\ op = NoOp
    /\ ret = FALSE
    /\ raised = FALSE
    /\ ConcIdle
    /\ OtherIdle

\* A call runs to its end in one step (the methods are synchronous and this
\* program runs them one at a time); prev, op and ret keep what the caller
\* can observe of it until it goes on (Return).
Mutate(r, call) ==
    /\ op = NoOp
    /\ Bounded(r.carts)
    /\ carts' = r.carts
    /\ ret' = r.ret
    /\ raised' = FALSE
    /\ prev' = carts
    /\ op' = call
    /\ UNCHANGED concvars
    /\ UNCHANGED othervars

AddItem ==
    \E u \in Users, i \in Items, q \in Quantities :
        Mutate(add_item(carts, u, i, q), Call("add_item", u, i, q, 0))

RemoveItem ==
    \E u \in Users, i \in Items :
        Mutate(remove_item(carts, u, i), Call("remove_item", u, i, 0, 0))

UpdateQuantity ==
    \E u \in Users, i \in Items, q \in Quantities :
        Mutate(update_quantity(carts, u, i, q), Call("update_quantity", u, i, q, 0))

ClearCart ==
    \E u \in Users :
        Mutate(clear_cart(carts, u), Call("clear_cart", u, 0, 0, 0))

GetItemQuantity ==
    \E u \in Users, i \in Items :
        Mutate([carts |-> carts, ret |-> get_item_quantity(carts, u, i)],
               Call("get_item_quantity", u, i, 0, 0))

GetCartItemCount ==
    \E u \in Users :
        Mutate([carts |-> carts, ret |-> get_cart_item_count(carts, u)],
               Call("get_cart_item_count", u, 0, 0, 0))

IsCartEmpty ==
    \E u \in Users :
        Mutate([carts |-> carts, ret |-> is_cart_empty(carts, u)],
               Call("is_cart_empty", u, 0, 0, 0))

GetCartTotal ==
    \E u \in Users, m \in CatalogIds :
        LET r == get_cart_total(carts, u, Catalogs[m])
        IN  /\ op = NoOp
            /\ carts' = carts
            /\ ret' = r.ret
            /\ raised' = r.raised
            /\ prev' = carts
            /\ op' = Call("get_cart_total", u, 0, 0, m)
            /\ UNCHANGED concvars
            /\ UNCHANGED othervars

\* the caller has taken the result and is ready for its next call
Return ==
    /\ op # NoOp
    /\ op' = NoOp
    /\ ret' = FALSE
    /\ raised' = FALSE
    /\ prev' = carts
    /\ UNCHANGED carts
    /\ UNCHANGED concvars
    /\ UNCHANGED othervars

Next ==
    \/ AddItem
    \/ RemoveItem
    \/ UpdateQuantity
    \/ ClearCart
    \/ GetItemQuantity
    \/ GetCartItemCount
    \/ IsCartEmpty
    \/ GetCartTotal
    \/ Return

Spec == Init /\ [][Next]_vars

\* ---------------------------------------------------- concurrent add_item
\* NumThreads threads each run add_item(ConcUser, ConcItem, 1) with no lock
\* (the class has none); a step is one statement of the method.  Cart
\* object 0 is the cart stored before the calls, object t the new dict that
\* get_cart builds as the default in thread t.
ConcUser == 1
ConcItem == 1
OtherItem == 2
ThirdItem == 3
ObjIds == 0..NumThreads

\* the carts the user can have before the calls: none, or one holding these
InitialItems ==
    {EmptyDict, Put(EmptyDict, ConcItem, 1), Put(EmptyDict, OtherItem, 1),
     Put(Put(EmptyDict, OtherItem, 1), ThirdItem, 1)}

InitConc ==
    /\ carts = CartManager_init
    /\ prev = CartManager_init
    /\ op = NoOp
    /\ ret = FALSE
    /\ raised = FALSE
    /\ OtherIdle
    /\ \/ /\ shared = EmptyDict
          /\ heap = [o \in ObjIds |-> EmptyDict]
       \/ \E d \in InitialItems :
          /\ shared = Put(EmptyDict, ConcUser, 0)
          /\ heap = [o \in ObjIds |-> IF o = 0 THEN d ELSE EmptyDict]
    /\ base = Get(heap[0], ConcItem, 0)
    /\ tcart = [t \in Threads |-> 0]
    /\ pc = [t \in Threads |-> "get_cart"]
    /\ tret = [t \in Threads |-> FALSE]

\* line 36: cart = self.get_cart(user_id)
T_get_cart(t) ==
    /\ pc[t] = "get_cart"
    /\ tcart' = [tcart EXCEPT ![t] = Get(shared, ConcUser, t)]
    /\ pc' = [pc EXCEPT ![t] = "increment"]
    /\ UNCHANGED <<heap, shared, tret, base>>
    /\ UNCHANGED seqvars
    /\ UNCHANGED othervars

\* lines 43-46: cart['items'][item_id] += 1, or = 1 for a new key
T_increment(t) ==
    /\ pc[t] = "increment"
    /\ LET items == heap[tcart[t]]
       IN  heap' = [heap EXCEPT ![tcart[t]] =
                        IF ConcItem \in DOMAIN items
                        THEN Put(items, ConcItem, items[ConcItem] + 1)
                        ELSE Put(items, ConcItem, 1)]
    /\ pc' = [pc EXCEPT ![t] = "check"]
    /\ UNCHANGED <<shared, tcart, tret, base>>
    /\ UNCHANGED seqvars
    /\ UNCHANGED othervars

\* lines 49-51: if len(cart['items']) > MAX_CART_ITEMS: return False
T_check(t) ==
    /\ pc[t] = "check"
    /\ IF len(heap[tcart[t]]) > MAX_CART_ITEMS
       THEN /\ pc' = [pc EXCEPT ![t] = "done"]
            /\ tret' = [tret EXCEPT ![t] = FALSE]
       ELSE /\ pc' = [pc EXCEPT ![t] = "save"]
            /\ tret' = tret
    /\ UNCHANGED <<heap, shared, tcart, base>>
    /\ UNCHANGED seqvars
    /\ UNCHANGED othervars

\* lines 59-62: self.carts[user_id] = cart; return True
T_save(t) ==
    /\ pc[t] = "save"
    /\ shared' = Put(shared, ConcUser, tcart[t])
    /\ pc' = [pc EXCEPT ![t] = "done"]
    /\ tret' = [tret EXCEPT ![t] = TRUE]
    /\ UNCHANGED <<heap, tcart, base>>
    /\ UNCHANGED seqvars
    /\ UNCHANGED othervars

NextConc ==
    \/ \E t \in Threads : T_get_cart(t)
    \/ \E t \in Threads : T_increment(t)
    \/ \E t \in Threads : T_check(t)
    \/ \E t \in Threads : T_save(t)

SpecConc == InitConc /\ [][NextConc]_vars

AllReturned == \A t \in Threads : pc[t] = "done"
\* the quantity of ConcItem in the cart self.carts holds for ConcUser
SharedQuantity ==
    IF ConcUser \in DOMAIN shared THEN Get(heap[shared[ConcUser]], ConcItem, 0) ELSE 0

\* ------------------------------------------- concurrent add_item/clear_cart
\* Thread Adder runs add_item(ConcUser, ConcItem, 1) while thread Clearer
\* runs clear_cart(ConcUser), on a stored cart (object 0) that holds other
\* items; a step is one statement.
Clearer == 0
Adder == 1

\* the carts of other items the user can have before the two calls
OtherItemsCarts ==
    { d \in UNION { [ks -> 1..MaxQty] : ks \in (SUBSET {OtherItem, ThirdItem}) \ {{}} } :
        len(d) <= MAX_CART_ITEMS }

InitAddClear ==
    /\ carts = CartManager_init
    /\ prev = CartManager_init
    /\ op = NoOp
    /\ ret = FALSE
    /\ raised = FALSE
    /\ OtherIdle
    /\ shared = Put(EmptyDict, ConcUser, 0)
    /\ \E d \in OtherItemsCarts : heap = [o \in ObjIds |-> IF o = 0 THEN d ELSE EmptyDict]
    /\ base = 0
    /\ tcart = [t \in {Clearer, Adder} |-> 0]
    /\ pc = [t \in {Clearer, Adder} |-> IF t = Adder THEN "get_cart" ELSE "clear_test"]
    /\ tret = [t \in {Clearer, Adder} |-> FALSE]

\* line 121: if user_id in self.carts ... else return False
C_test ==
    /\ pc[Clearer] = "clear_test"
    /\ IF ConcUser \in DOMAIN shared
       THEN pc' = [pc EXCEPT ![Clearer] = "clear_del"] /\ tret' = tret
       ELSE pc' = [pc EXCEPT ![Clearer] = "done"] /\ tret' = [tret EXCEPT ![Clearer] = FALSE]
    /\ UNCHANGED <<heap, shared, tcart, base>>
    /\ UNCHANGED seqvars
    /\ UNCHANGED othervars

\* lines 122-124: del self.carts[user_id]; return True (a KeyError is caught
\* at line 126 and False returned)
C_del ==
    /\ pc[Clearer] = "clear_del"
    /\ IF ConcUser \in DOMAIN shared
       THEN shared' = Del(shared, ConcUser) /\ tret' = [tret EXCEPT ![Clearer] = TRUE]
       ELSE shared' = shared /\ tret' = [tret EXCEPT ![Clearer] = FALSE]
    /\ pc' = [pc EXCEPT ![Clearer] = "done"]
    /\ UNCHANGED <<heap, tcart, base>>
    /\ UNCHANGED seqvars
    /\ UNCHANGED othervars

NextAddClear ==
    \/ T_get_cart(Adder)
    \/ T_increment(Adder)
    \/ T_check(Adder)
    \/ T_save(Adder)
    \/ C_test
    \/ C_del

SpecAddClear == InitAddClear /\ [][NextAddClear]_vars

BothReturned == pc[Clearer] = "done" /\ pc[Adder] = "done"

\* ------------------------------------------------- a caller of get_cart
\* A caller keeps the cart get_cart(ConcUser) returned.  caller.live says
\* that this cart is the very object stored under self.carts[ConcUser]
\* (dict.get returned the stored value): then its items are those of the
\* store.  Otherwise it is an object of its own with caller.items.
\* add_item, update_quantity and remove_item change the object they got from
\* get_cart and store that same object, so a live cart stays live; clear_cart
\* takes the object out of the store, with the items it has then.
\* The run is: get_cart, then store calls, then one change by the caller.
NoCaller == [held |-> FALSE, live |-> FALSE, items |-> EmptyDict,
             snapshot |-> EmptyDict, wrote |-> FALSE]

\* the items the caller reads in the cart it holds
CallerItems == IF caller.live THEN carts[ConcUser].items ELSE caller.items

InitRef ==
    /\ \/ carts = CartManager_init
       \/ \E d \in InitialItems : carts = Put(EmptyDict, ConcUser, [items |-> d])
    /\ prev = carts
    /\ op = NoOp
    /\ ret = FALSE
    /\ raised = FALSE
    /\ ConcIdle
    /\ caller = NoCaller
    /\ simple = EmptyDict
    /\ rejected = FALSE

\* cart = cart_manager.get_cart(ConcUser)
R_get_cart ==
    /\ ~caller.held
    /\ caller' = [held |-> TRUE,
                  live |-> ConcUser \in DOMAIN carts,
                  items |-> IF ConcUser \in DOMAIN carts THEN EmptyDict
                            ELSE get_cart(carts, ConcUser).items,
                  snapshot |-> get_cart(carts, ConcUser).items,
                  wrote |-> FALSE]
    /\ op' = Call("get_cart", ConcUser, 0, 0, 0)
    /\ prev' = carts
    /\ UNCHANGED <<carts, ret, raised, simple, rejected>>
    /\ UNCHANGED concvars

\* the caller changes the cart it holds: cart['items'][i] = q
R_caller_write ==
    /\ caller.held /\ ~caller.wrote
    /\ \E i \in Items, q \in 1..MaxQty :
        /\ IF caller.live
           THEN /\ carts' = Put(carts, ConcUser,
                               [carts[ConcUser] EXCEPT !.items = Put(@, i, q)])
                /\ caller' = [caller EXCEPT !.wrote = TRUE]
           ELSE /\ carts' = carts
                /\ caller' = [caller EXCEPT !.wrote = TRUE, !.items = Put(@, i, q)]
        /\ op' = Call("caller_write", ConcUser, i, q, 0)
    /\ prev' = carts
    /\ UNCHANGED <<ret, raised, simple, rejected>>
    /\ UNCHANGED concvars

\* a later add_item, update_quantity or remove_item for the same user
R_store_call ==
    /\ caller.held /\ ~caller.wrote
    /\ \E i \in Items, q \in Quantities :
       \E r \in {add_item(carts, ConcUser, i, q), update_quantity(carts, ConcUser, i, q),
                 remove_item(carts, ConcUser, i)} :
        /\ Bounded(r.carts)
        /\ carts' = r.carts
        /\ ret' = r.ret
    /\ op' = Call("store_call", ConcUser, 0, 0, 0)
    /\ UNCHANGED <<prev, raised, caller, simple, rejected>>
    /\ UNCHANGED concvars

\* a later clear_cart for the same user
R_clear_cart ==
    /\ caller.held /\ ~caller.wrote
    /\ LET r == clear_cart(carts, ConcUser)
       IN  /\ carts' = r.carts
           /\ ret' = r.ret
    /\ caller' = IF caller.live
                 THEN [caller EXCEPT !.live = FALSE, !.items = carts[ConcUser].items]
                 ELSE caller
    /\ op' = Call("store_call", ConcUser, 0, 0, 0)
    /\ UNCHANGED <<prev, raised, simple, rejected>>
    /\ UNCHANGED concvars

NextRef ==
    \/ R_get_cart
    \/ R_caller_write
    \/ R_store_call
    \/ R_clear_cart

SpecRef == InitRef /\ [][NextRef]_vars

\* ------------------------------------------------------- chat handlers
\* The handlers of add_cart_system.py, run one at a time on the CartManager
\* above (the one that has get_item_quantity and remove_item).
\* The menu lookup of the handlers, as get_item_by_id of utils.py does it:
\* the item whose id matches, or nothing; the menu is the first catalog.
menu_has_item(item_id) ==
    \E k \in 1..Len(Catalogs[1].drinks.items) : Catalogs[1].drinks.items[k].id = item_id

\* add_item_to_cart, lines 57-67: an item found on the menu is added once
add_item_to_cart(c, user_id, item_id) ==
    IF ~menu_has_item(item_id)
    THEN [carts |-> c, ret |-> FALSE]
    ELSE add_item(c, user_id, item_id, 1)

max(a, b) == IF a >= b THEN a ELSE b

\* update_cart_quantity changing the quantity through add_item
update_cart_quantity_by_add_item(c, user_id, action, item_id) ==
    IF action = "increase" THEN add_item(c, user_id, item_id, 1)
    ELSE IF action = "decrease" THEN add_item(c, user_id, item_id, -1)
    ELSE [carts |-> c, ret |-> FALSE]

\* update_cart_quantity, lines 146-164
update_cart_quantity(c, user_id, action, item_id) ==
    LET current_qty == get_item_quantity(c, user_id, item_id)
        new_qty == IF action = "increase" THEN current_qty + 1
                   ELSE max(0, current_qty - 1)
    IN  IF action \notin {"increase", "decrease"}
        THEN [carts |-> c, ret |-> FALSE]
        ELSE IF new_qty = 0
        THEN remove_item(c, user_id, item_id)
        ELSE update_quantity(c, user_id, item_id, new_qty)

\* the callback actions: the two of the quantity buttons and any other
CallbackActions == {"increase", "decrease", "quantity"}

H_add_item_to_cart ==
    \E u \in Users, i \in Items :
        Mutate(add_item_to_cart(carts, u, i), Call("add_item_to_cart", u, i, 1, 0))

H_update_cart_quantity ==
    \E u \in Users, i \in Items, action \in CallbackActions :
        Mutate(update_cart_quantity(carts, u, action, i), Call(action, u, i, 0, 0))

\* the "clear_cart" button
H_clear_cart ==
    \E u \in Users :
        Mutate(clear_cart(carts, u), Call("clear_cart", u, 0, 0, 0))

NextHandlers ==
    \/ H_add_item_to_cart
    \/ H_update_cart_quantity
    \/ H_clear_cart
    \/ Return

SpecHandlers == Init /\ [][NextHandlers]_vars

\* ------------------------------------------------------ the two managers
\* CartManager of add_cart_system.py, and both managers given the same calls
simple_get_cart(c, user_id) == Get(c, user_id, [items |-> EmptyDict])

\* the simple add_item storing the quantity instead of adding to it
simple_add_item_overwrite(c, user_id, item_id, quantity) ==
    LET cart == simple_get_cart(c, user_id)
    IN  [carts |-> Put(c, user_id, [cart EXCEPT !.items = Put(cart.items, item_id, quantity)]),
         ret |-> TRUE]

simple_add_item(c, user_id, item_id, quantity) ==
    LET cart == simple_get_cart(c, user_id)
        items == IF item_id \in DOMAIN cart.items
                 THEN Put(cart.items, item_id, cart.items[item_id] + quantity)
                 ELSE Put(cart.items, item_id, quantity)
    IN  [carts |-> Put(c, user_id, [cart EXCEPT !.items = items]), ret |-> TRUE]

simple_update_quantity(c, user_id, item_id, quantity) ==
    LET cart == simple_get_cart(c, user_id)
        items == IF quantity <= 0
                 THEN (IF item_id \in DOMAIN cart.items THEN Del(cart.items, item_id)
                       ELSE cart.items)
                 ELSE Put(cart.items, item_id, quantity)
    IN  [carts |-> Put(c, user_id, [cart EXCEPT !.items = items]), ret |-> TRUE]

simple_clear_cart(c, user_id) ==
    IF user_id \in DOMAIN c
    THEN [carts |-> Del(c, user_id), ret |-> TRUE]
    ELSE [carts |-> c, ret |-> TRUE]

InitPair ==
    /\ carts = CartManager_init
    /\ prev = CartManager_init
    /\ op = NoOp
    /\ ret = FALSE
    /\ raised = FALSE
    /\ ConcIdle
    /\ caller = EmptyDict
    /\ simple = EmptyDict
    /\ rejected = FALSE

\* one call made on both managers: r is the enhanced result, rs the simple one
Both(r, rs, call) ==
    /\ op = NoOp
    /\ Bounded(r.carts) /\ Bounded(rs.carts)
    /\ carts' = r.carts
    /\ simple' = rs.carts
    /\ ret' = r.ret
    /\ rejected' = (rejected \/ (call.name = "add_item" /\ r.ret = FALSE))
    /\ raised' = FALSE
    /\ prev' = carts
    /\ op' = call
    /\ UNCHANGED caller
    /\ UNCHANGED concvars

P_add_item ==
    \E u \in Users, i \in Items, q \in Quantities :
        Both(add_item(carts, u, i, q), simple_add_item(simple, u, i, q),
             Call("add_item", u, i, q, 0))

P_update_quantity ==
    \E u \in Users, i \in Items, q \in Quantities :
        Both(update_quantity(carts, u, i, q), simple_update_quantity(simple, u, i, q),
             Call("update_quantity", u, i, q, 0))

P_clear_cart ==
    \E u \in Users :
        Both(clear_cart(carts, u), simple_clear_cart(simple, u),
             Call("clear_cart", u, 0, 0, 0))

NextPair ==
    \/ P_add_item
    \/ P_update_quantity
    \/ P_clear_cart
    \/ Return

SpecPair == InitPair /\ [][NextPair]_vars

\* ----------------------------------------------------------------- claims
\* the stored cart of user u is the same in stores c1 and c2
SameCart(c1, c2, u) ==
    /\ u \in DOMAIN c1 <=> u \in DOMAIN c2
    /\ u \in DOMAIN c1 => c1[u] = c2[u]

\* the distinct items user u would have after adding item i
WouldHold(c, u, i) == (DOMAIN get_cart(c, u).items) \cup {i}

\* C1: an add_item that would take the cart beyond MAX_CART_ITEMS distinct
\* items fails and leaves the stored cart exactly as it was.
C1_RejectedAddLeavesCartUnchanged ==
    (op.name = "add_item" /\ Cardinality(WouldHold(prev, op.user, op.item)) > MAX_CART_ITEMS)
        => (ret = FALSE /\ SameCart(carts, prev, op.user))

\* C2: every stored cart has at most MAX_CART_ITEMS distinct items.
C2_CapacityInvariant ==
    \A u \in DOMAIN carts : len(carts[u].items) <= MAX_CART_ITEMS

\* C3: every stored quantity is a positive integer.
C3_QuantitiesPositive ==
    \A u \in DOMAIN carts : \A i \in DOMAIN carts[u].items : carts[u].items[i] >= 1

\* C4: once all NumThreads concurrent add_item(u, i, 1) calls have returned,
\* the stored quantity of i has grown by exactly NumThreads.
C4_NoLostUpdates ==
    AllReturned => SharedQuantity = base + NumThreads

\* C5: add_item with a quantity <= 0 fails and leaves the cart unchanged.
C5_NonPositiveAddRejected ==
    (op.name = "add_item" /\ op.qty <= 0)
        => (ret = FALSE /\ SameCart(carts, prev, op.user))

\* the items a catalog lists, over all its categories
CatalogItems(menu_items) ==
    UNION { { menu_items[cat].items[k] : k \in 1..Len(menu_items[cat].items) } :
            cat \in DOMAIN menu_items }
InCatalog(menu_items, i) == \E it \in CatalogItems(menu_items) : it.id = i
CatalogPrice(menu_items, i) ==
    float(replace_dollar((CHOOSE it \in CatalogItems(menu_items) : it.id = i).price))
RECURSIVE WeightedSum(_, _, _)
WeightedSum(entries, ids, menu_items) ==
    IF ids = {} THEN 0
    ELSE LET i == CHOOSE x \in ids : TRUE
         IN  (IF InCatalog(menu_items, i) THEN CatalogPrice(menu_items, i) * entries[i] ELSE 0)
             + WeightedSum(entries, ids \ {i}, menu_items)
\* the total the cart of user u has against a catalog
ExpectedTotal(c, u, menu_items) ==
    WeightedSum(get_cart(c, u).items, DOMAIN get_cart(c, u).items, menu_items)

\* C6: get_cart_total returns the sum of catalog price times quantity over
\* the cart entries whose item is in the catalog.
C6_TotalIsWeightedSum ==
    op.name = "get_cart_total"
        => ret = ExpectedTotal(prev, op.user, Catalogs[op.cat])

\* C7: get_cart_total never ends in an error: it returns a number, entries
\* whose item is not in the catalog add nothing to it, and the store is
\* left unchanged.
C7_TotalNeverFails ==
    op.name = "get_cart_total"
        => /\ ~raised
           /\ ret \in Nat
           /\ carts = prev
           /\ (\A i \in DOMAIN get_cart(prev, op.user).items : ~InCatalog(Catalogs[op.cat], i))
                  => ret = 0
C7_Witness ==
    /\ op.name = "get_cart_total"
    /\ ~raised
    /\ ret = 0
    /\ DOMAIN get_cart(carts, op.user).items # {}
    /\ \E i \in DOMAIN get_cart(carts, op.user).items : ~InCatalog(Catalogs[op.cat], i)
    /\ Catalogs[op.cat].drinks.type = "dict"

\* C8: a successful add_item(u, i, q) with q > 0 makes the quantity of i its
\* previous quantity (0 when absent) plus q and leaves the other items of u
\* unchanged.
C8_AddAccumulates ==
    (op.name = "add_item" /\ op.qty > 0 /\ ret = TRUE)
        => LET before == get_cart(prev, op.user).items
               after == get_cart(carts, op.user).items
           IN  /\ op.user \in DOMAIN carts
               /\ DOMAIN after = (DOMAIN before) \cup {op.item}
               /\ after[op.item] = Get(before, op.item, 0) + op.qty
               /\ \A j \in (DOMAIN before) \ {op.item} : after[j] = before[j]
C8_Witness ==
    /\ op.name = "add_item" /\ op.qty = 1 /\ ret = TRUE
    /\ op.user \in DOMAIN prev
    /\ prev[op.user].items = Put(EmptyDict, op.item, 1)
    /\ carts[op.user].items = Put(EmptyDict, op.item, 2)

\* C9: update_quantity(u, i, q) with q <= 0 returns what remove_item(u, i)
\* returns and leaves the store as remove_item(u, i) leaves it; afterwards
\* get_item_quantity(u, i) is 0.
C9_UpdateNonPositiveIsRemove ==
    (op.name = "update_quantity" /\ op.qty <= 0)
        => /\ carts = remove_item(prev, op.user, op.item).carts
           /\ ret = remove_item(prev, op.user, op.item).ret
           /\ get_item_quantity(carts, op.user, op.item) = 0
C9_Witness ==
    /\ op.name = "update_quantity" /\ op.qty = 0 /\ ret = TRUE
    /\ op.item \in DOMAIN get_cart(prev, op.user).items
    /\ op.item \notin DOMAIN get_cart(carts, op.user).items

\* C10: update_quantity never increases the number of distinct items of the
\* user's cart.
C10_UpdateNeverGrowsCart ==
    op.name = "update_quantity"
        => len(get_cart(carts, op.user).items) <= len(get_cart(prev, op.user).items)

\* C11: remove_item(u, i) returns true exactly when i was a key of u's cart;
\* then only that key is deleted and the other entries keep their
\* quantities; otherwise the whole store is unchanged.
C11_RemoveItemFrame ==
    op.name = "remove_item"
        => LET before == get_cart(prev, op.user).items
               after == get_cart(carts, op.user).items
           IN  /\ ret = TRUE <=> op.item \in DOMAIN before
               /\ op.item \in DOMAIN before
                    => /\ DOMAIN after = (DOMAIN before) \ {op.item}
                       /\ \A j \in DOMAIN after : after[j] = before[j]
               /\ op.item \notin DOMAIN before => carts = prev
C11_Witness ==
    /\ op.name = "remove_item" /\ ret = TRUE
    /\ op.item \in DOMAIN get_cart(prev, op.user).items
    /\ op.item \notin DOMAIN get_cart(carts, op.user).items
    /\ \E j \in DOMAIN get_cart(carts, op.user).items :
           carts[op.user].items[j] = prev[op.user].items[j]

\* C12: clear_cart(u) returns true exactly when the store held a cart for
\* u; after it get_cart(u) has an empty items mapping.
C12_ClearCart ==
    op.name = "clear_cart"
        => /\ ret = TRUE <=> op.user \in DOMAIN prev
           /\ get_cart(carts, op.user).items = EmptyDict
C12_Witness ==
    /\ op.name = "clear_cart" /\ ret = TRUE
    /\ op.user \in DOMAIN prev
    /\ prev[op.user].items # EmptyDict
    /\ get_cart(carts, op.user).items = EmptyDict

\* the sum of the quantities of an items mapping, item by item
RECURSIVE UnitsUpTo(_, _)
UnitsUpTo(items, n) ==
    IF n = 0 THEN 0 ELSE Get(items, n, 0) + UnitsUpTo(items, n - 1)

\* C13: the derived reads agree with get_cart(u).items: get_cart_item_count
\* is the sum of its quantities, is_cart_empty is true exactly when it has
\* no key, get_item_quantity is the stored quantity or 0.
C13_ReadsAgreeWithItems ==
    LET items == get_cart(carts, op.user).items
    IN  /\ op.name = "get_cart_item_count"
            => ret = UnitsUpTo(items, MAX_CART_ITEMS + 1)
        /\ op.name = "is_cart_empty" => (ret = TRUE <=> DOMAIN items = {})
        /\ op.name = "get_item_quantity"
            => ret = (IF op.item \in DOMAIN items THEN items[op.item] ELSE 0)
C13_Witness ==
    /\ op.name = "get_cart_item_count"
    /\ len(get_cart(carts, op.user).items) = 2
    /\ ret = 3

\* remove_item, or update_quantity with a quantity <= 0, has deleted the
\* last remaining entry of the user's cart
DrainedLastEntry ==
    /\ op.name = "remove_item" \/ (op.name = "update_quantity" /\ op.qty <= 0)
    /\ DOMAIN get_cart(prev, op.user).items = {op.item}

\* C14 as claimed: when the last entry of u's cart is deleted, the store
\* holds no cart for u, exactly as after clear_cart(u).
C14_DrainedCartLeavesStore ==
    DrainedLastEntry
        => /\ op.user \notin DOMAIN carts
           /\ carts = clear_cart(prev, op.user).carts

\* C14 as amended: when the last entry of u's cart is deleted, the store
\* keeps a cart for u whose items mapping is empty (a following clear_cart
\* still finds it); it reads like no cart: get_cart(u).items is the same as
\* after clear_cart(u) and is_cart_empty(u) is true.
C14_DrainedCartStaysEmpty ==
    DrainedLastEntry
        => /\ op.user \in DOMAIN carts
           /\ carts[op.user].items = EmptyDict
           /\ clear_cart(carts, op.user).ret = TRUE
           /\ get_cart(carts, op.user).items
                  = get_cart(clear_cart(prev, op.user).carts, op.user).items
           /\ is_cart_empty(carts, op.user)
C14_Witness ==
    /\ op.name = "remove_item" /\ ret = TRUE
    /\ DOMAIN get_cart(prev, op.user).items = {op.item}
    /\ op.user \in DOMAIN carts
    /\ carts[op.user].items = EmptyDict

\* what the read operations return for user u in store c
ReadsOf(c, u) ==
    [items |-> get_cart(c, u).items,
     quantity |-> [i \in Items |-> get_item_quantity(c, u, i)],
     count |-> get_cart_item_count(c, u),
     empty |-> is_cart_empty(c, u),
     total |-> [m \in CatalogIds |-> get_cart_total(c, u, Catalogs[m])]]

\* C15: a user whose stored cart has an empty items mapping and the same
\* user with no stored cart get the same results from every read.
C15_EmptyCartReadsAsNoCart ==
    \A u \in DOMAIN carts :
        carts[u].items = EmptyDict => ReadsOf(carts, u) = ReadsOf(Del(carts, u), u)
C15_Witness ==
    /\ op.name = "is_cart_empty" /\ ret = TRUE
    /\ op.user \in DOMAIN carts
    /\ carts[op.user].items = EmptyDict

\* C17: a call for user u, whatever it returns, leaves the stored cart of
\* every other user as it was, including whether that user has a cart.
C17_OtherUsersUntouched ==
    op.name # "idle"
        => \A v \in Users \ {op.user} : SameCart(carts, prev, v)
C17_Witness ==
    /\ op.name = "clear_cart" /\ ret = TRUE
    /\ \E v \in Users \ {op.user} :
           /\ v \in DOMAIN carts
           /\ carts[v].items # EmptyDict
           /\ v \in DOMAIN prev /\ prev[v] = carts[v]

\* C16: get_cart returns a snapshot: a change the caller makes to the items
\* of the cart it was handed does not change what the store reports, and
\* later store calls do not change the cart the caller was handed.
C16_GetCartReturnsSnapshot ==
    /\ op.name = "caller_write"
           => get_cart(carts, ConcUser).items = get_cart(prev, ConcUser).items
    /\ (caller.held /\ ~caller.wrote) => CallerItems = caller.snapshot

\* C18: when add_item(u, i, 1) and clear_cart(u) have run concurrently on a
\* cart of other items, the store holds either no cart for u or a cart with
\* only i, at quantity 1.
C18_AddClearSerializable ==
    BothReturned
        => \/ ConcUser \notin DOMAIN shared
           \/ heap[shared[ConcUser]] = Put(EmptyDict, ConcItem, 1)

\* C19: when the cart is changed only through the chat handlers, every
\* stored quantity is at least 1: a decrease from quantity 1 removes the
\* entry, a decrease of an item not in the cart stores nothing.
C19_HandlersKeepQuantitiesPositive ==
    /\ \A u \in DOMAIN carts : \A i \in DOMAIN carts[u].items : carts[u].items[i] >= 1
    /\ (op.name = "decrease" /\ get_item_quantity(prev, op.user, op.item) <= 1)
           => op.item \notin DOMAIN get_cart(carts, op.user).items
C19_Witness ==
    /\ op.name = "decrease"
    /\ get_item_quantity(prev, op.user, op.item) = 1
    /\ op.item \notin DOMAIN get_cart(carts, op.user).items
    /\ get_cart(carts, op.user).items # EmptyDict

\* C20: as long as the enhanced manager has rejected no add_item, the two
\* managers, given the same calls, report the same items mapping through
\* get_cart for every user.
C20_ManagersAgreeOnItems ==
    ~rejected
        => \A u \in Users : get_cart(carts, u).items = simple_get_cart(simple, u).items
C20_Witness ==
    /\ ~rejected
    /\ op.name = "update_quantity"
    /\ \E u \in DOMAIN simple : u \notin DOMAIN carts
    /\ \E v \in DOMAIN carts :
           /\ carts[v].items # EmptyDict
           /\ v \in DOMAIN simple /\ simple[v].items = carts[v].items

====
